---- MODULE Spec2Model ----
(***************************************************************************)
(* The text-summarizer service (src/app.py) and its demonstration client   *)
(* (src/client.py).                                                        *)
(*                                                                         *)
(* app.py runs top to bottom at module load: load_dotenv, the read of      *)
(* GROQ_API_KEY, the FastAPI app with its CORS middleware, the ChatGroq    *)
(* model, the prompt template, the chain prompt | llm | StrOutputParser(), *)
(* add_routes, and uvicorn.run.  Once the server listens, each request is  *)
(* handled by the route add_routes registered: the body is validated, the  *)
(* chain's steps run in order, the one suspension point being the call to  *)
(* the provider, and the final value is returned as {"output": ...}.       *)
(*                                                                         *)
(* Text is a sequence of one-character strings, so that the template's     *)
(* formatting is computed character by character.                          *)
(***************************************************************************)
EXTENDS Naturals, Sequences, FiniteSets

\* How many requests the server is sent in one behaviour.
MaxRequests == 2

Requests == 1..MaxRequests

NoKey == "<unset>"

\* The values GROQ_API_KEY can have in the process environment and in the
\* .env file: unset, a key the provider accepts, a key it rejects.
EnvKeys == {NoKey, "gsk_valid", "gsk_invalid"}
DotenvKeys == {NoKey, "gsk_valid"}

\* The request texts tried: the empty text, and a text that itself looks like
\* a template slot.
Texts == {<<>>, <<"{", "t", "e", "x", "t", "}">>}

\* The contents a working provider answers with (the empty answer included).
Contents == {<<>>, <<"A", ".">>}

VARIABLES
    spc,            \* the server's position in app.py
    environ,        \* os.environ's GROQ_API_KEY
    dotenv,         \* the .env file's GROQ_API_KEY
    groq_api_key,   \* app.py's global groq_api_key
    llm,            \* app.py's global llm
    prompt,         \* app.py's global prompt (the template's characters)
    chain,          \* app.py's global chain (its steps in order)
    routes,         \* the routes registered on app
    provider,       \* "live": the remote provider; "stub": a deterministic stub
    rpc,            \* per request: "idle", "awaiting" (provider call in flight), "done"
    reqPath,        \* per request: the path it was sent to
    reqBody,        \* per request: its JSON body
    pos,            \* per request: the chain step being run
    val,            \* per request: the value handed to the next step
    trace,          \* per request: the steps run so far, each with input and output
    llmOut,         \* per request: what the provider call ended with
    resp,           \* per request: the HTTP response
    cpc,            \* the client's position in client.py
    creq,           \* the request the client sent (0: none)
    res,            \* client.py's res
    stdout,         \* what the client printed
    pin,            \* prompt builder alone: the mapping it is given
    pout            \* prompt builder alone: what it returned

serverVars == <<spc, environ, dotenv, groq_api_key, llm, prompt, chain, routes>>
requestVars == <<rpc, reqPath, reqBody, pos, val, trace, llmOut, resp>>
clientVars == <<cpc, creq, res, stdout>>
builderVars == <<pin, pout>>
vars == <<serverVars, provider, requestVars, clientVars, builderVars>>

----------------------------------------------------------------------------
(* Values *)

\* A JSON value of a request body, as far as the service looks at it.
JAbsent == [type |-> "absent", s |-> <<>>]
JInt == [type |-> "int", s |-> <<>>]
JStr(t) == [type |-> "str", s |-> t]

\* A mapping from keys to texts; EmptyMap is {}.
EmptyMap == [k \in {} |-> <<>>]

\* A value passed between the chain's steps: a dict (kw), a prompt value, a
\* chat message (its content s, its response metadata meta), or a string.
NoValue == [tag |-> "none", s |-> <<>>, meta |-> "none", kw |-> EmptyMap]
DictValue(m) == [tag |-> "dict", s |-> <<>>, meta |-> "none", kw |-> m]
PromptValue(t) == [tag |-> "prompt", s |-> t, meta |-> "none", kw |-> EmptyMap]
MessageValue(t, m) == [tag |-> "message", s |-> t, meta |-> m, kw |-> EmptyMap]
StrValue(t) == [tag |-> "str", s |-> t, meta |-> "none", kw |-> EmptyMap]
ErrorValue(e) == [tag |-> "error", s |-> <<>>, meta |-> e, kw |-> EmptyMap]

NoLlm == [api_key |-> NoKey, model |-> "", temperature |-> ""]
NoOutcome == [kind |-> "none", content |-> <<>>, finish_reason |-> "none"]
NoResponse ==
    [status |-> 0, output |-> <<>>, output_meta |-> "none", error |-> "none",
     run_id |-> 0]
NoPath == [prefix |-> "", config_hash |-> "", endpoint |-> ""]
NoBody == [top_text |-> JAbsent, has_input |-> FALSE, input_text |-> JAbsent]

----------------------------------------------------------------------------
(* The prompt template, app.py lines 49-51 *)

\* "Summarize the following text clearly and concisely:\n\n{text}"
TemplateString ==
<<
    "S", "u", "m", "m", "a", "r", "i", "z", "e", " ", "t", "h",
    "e", " ", "f", "o", "l", "l", "o", "w", "i", "n", "g", " ",
    "t", "e", "x", "t", " ", "c", "l", "e", "a", "r", "l", "y",
    " ", "a", "n", "d", " ", "c", "o", "n", "c", "i", "s", "e",
    "l", "y", ":", "\n", "\n", "{", "t", "e", "x", "t", "}"
>>

RECURSIVE IndexFrom(_, _, _)
\* The first index >= i at which s holds character c; 0 when there is none.
IndexFrom(s, c, i) ==
    IF i > Len(s) THEN 0
    ELSE IF s[i] = c THEN i
    ELSE IndexFrom(s, c, i + 1)

RECURSIVE FieldNamesFrom(_, _)
\* The replacement fields "{name}" of a template, read from index i on.
FieldNamesFrom(tpl, i) ==
    IF i > Len(tpl) THEN {}
    ELSE IF tpl[i] = "{" /\ IndexFrom(tpl, "}", i) > 0
         THEN {SubSeq(tpl, i + 1, IndexFrom(tpl, "}", i) - 1)}
                  \cup FieldNamesFrom(tpl, IndexFrom(tpl, "}", i) + 1)
         ELSE FieldNamesFrom(tpl, i + 1)

\* ChatPromptTemplate.from_template: the template's input variables.
InputVariables(tpl) == FieldNamesFrom(tpl, 1)

RECURSIVE FormatFrom(_, _, _)
\* str.format over the template: literal characters are copied, a field
\* "{name}" is replaced by kwargs[name], and what was substituted is not
\* read again.
FormatFrom(tpl, i, kwargs) ==
    IF i > Len(tpl) THEN <<>>
    ELSE IF tpl[i] = "{" /\ IndexFrom(tpl, "}", i) > 0
         THEN kwargs[SubSeq(tpl, i + 1, IndexFrom(tpl, "}", i) - 1)]
                  \o FormatFrom(tpl, IndexFrom(tpl, "}", i) + 1, kwargs)
         ELSE <<tpl[i]>> \o FormatFrom(tpl, i + 1, kwargs)

TextKey == <<"t", "e", "x", "t">>

OtherKey == <<"o">>

\* The keyword arguments the template is formatted with: the mapping itself.
Kwargs(v) == IF v.tag = "dict" THEN v.kw ELSE EmptyMap

\* Variant: a missing input variable is formatted as the empty text.
PromptInvokeDefaulting(tpl, v) ==
    IF InputVariables(tpl) \subseteq DOMAIN Kwargs(v)
    THEN PromptValue(FormatFrom(tpl, 1, Kwargs(v)))
    ELSE PromptValue(FormatFrom(tpl, 1, [k \in {TextKey} |-> <<>>]))

\* Variant: the text is read from a module-level global that holds the first
\* request's text, not from the mapping the step is given.
PromptInvokeShared(tpl, v) ==
    PromptValue(FormatFrom(tpl, 1, [k \in {TextKey} |-> reqBody[1].input_text.s]))

\* prompt.invoke(v): the prompt value whose one human message is the
\* formatted template; a KeyError when an input variable is missing.
PromptInvoke(tpl, v) ==
    IF InputVariables(tpl) \subseteq DOMAIN Kwargs(v)
    THEN PromptValue(FormatFrom(tpl, 1, Kwargs(v)))
    ELSE ErrorValue("KeyError")

----------------------------------------------------------------------------
(* Module load, app.py lines 15-72 *)

\* load_dotenv(): a variable of the .env file is set in os.environ unless the
\* environment already has it.
LoadedEnviron(env, file) == IF env = NoKey THEN file ELSE env

\* Variant: os.environ.get("GROQ_API_KEY"), which returns None and never raises.
EnvironGetRaises(env) == FALSE

\* os.environ["GROQ_API_KEY"] raises KeyError when the variable is unset.
EnvironLookupRaises(env) == env = NoKey

\* ChatGroq(api_key=groq_api_key, model="llama-3.1-8b-instant", temperature=0.3)
ChatGroq(key) ==
    [api_key |-> key, model |-> "llama-3.1-8b-instant", temperature |-> "0.3"]

\* a | b: the sequence that runs a's steps, then b's.
Pipe(a, b) == a \o b

\* Variant: prompt | llm, the output parser left out.
ChainWithoutParser == Pipe(<<"prompt">>, <<"llm">>)

\* prompt | llm | StrOutputParser()
BuildChain == Pipe(Pipe(<<"prompt">>, <<"llm">>), <<"parser">>)

Route(m, hashed, e) ==
    [method |-> m, prefix |-> "/summarize", hashed |-> hashed, endpoint |-> e]

\* add_routes(app, chain, path="/summarize"): the endpoints under the path,
\* each also under /c/{config_hash}.
AddedRoutes ==
    {Route("POST", h, e) :
        h \in BOOLEAN,
        e \in {"invoke", "batch", "stream", "stream_log", "stream_events"}}
    \cup {Route("GET", h, e) :
        h \in BOOLEAN, e \in {"input_schema", "output_schema", "config_schema"}}

LoadDotenv ==
    /\ spc = "load_dotenv"
    /\ environ' = LoadedEnviron(environ, dotenv)
    /\ spc' = "read_key"
    /\ UNCHANGED <<dotenv, groq_api_key, llm, prompt, chain, routes>>
    /\ UNCHANGED <<provider, requestVars, clientVars, builderVars>>

ReadApiKey ==
    /\ spc = "read_key"
    /\ IF EnvironLookupRaises(environ)
       THEN /\ spc' = "crashed"
            /\ UNCHANGED groq_api_key
       ELSE /\ spc' = "create_app"
            /\ groq_api_key' = environ
    /\ UNCHANGED <<environ, dotenv, llm, prompt, chain, routes>>
    /\ UNCHANGED <<provider, requestVars, clientVars, builderVars>>

\* FastAPI(...) and app.add_middleware(CORSMiddleware, ...): no route yet.
CreateApp ==
    /\ spc = "create_app"
    /\ spc' = "build_llm"
    /\ routes' = {}
    /\ UNCHANGED <<environ, dotenv, groq_api_key, llm, prompt, chain>>
    /\ UNCHANGED <<provider, requestVars, clientVars, builderVars>>

BuildLlm ==
    /\ spc = "build_llm"
    /\ llm' = ChatGroq(groq_api_key)
    /\ spc' = "build_prompt"
    /\ UNCHANGED <<environ, dotenv, groq_api_key, prompt, chain, routes>>
    /\ UNCHANGED <<provider, requestVars, clientVars, builderVars>>

BuildPrompt ==
    /\ spc = "build_prompt"
    /\ prompt' = TemplateString
    /\ spc' = "build_chain"
    /\ UNCHANGED <<environ, dotenv, groq_api_key, llm, chain, routes>>
    /\ UNCHANGED <<provider, requestVars, clientVars, builderVars>>

ComposeChain ==
    /\ spc = "build_chain"
    /\ chain' = BuildChain
    /\ spc' = "add_routes"
    /\ UNCHANGED <<environ, dotenv, groq_api_key, llm, prompt, routes>>
    /\ UNCHANGED <<provider, requestVars, clientVars, builderVars>>

AddRoutes ==
    /\ spc = "add_routes"
    /\ routes' = routes \cup AddedRoutes
    /\ spc' = "run"
    /\ UNCHANGED <<environ, dotenv, groq_api_key, llm, prompt, chain>>
    /\ UNCHANGED <<provider, requestVars, clientVars, builderVars>>

\* uvicorn.run(app, host="localhost", port=8000)
RunServer ==
    /\ spc = "run"
    /\ spc' = "listening"
    /\ UNCHANGED <<environ, dotenv, groq_api_key, llm, prompt, chain, routes>>
    /\ UNCHANGED <<provider, requestVars, clientVars, builderVars>>

----------------------------------------------------------------------------
(* The chain's steps *)

\* Variant: a parser that takes strings only and rejects a chat message.
StringOnlyParserInvoke(v) ==
    IF v.tag = "str" THEN v ELSE ErrorValue("ValidationError")

\* StrOutputParser: the text of a chat message, its metadata dropped; a
\* string passes through.
StrOutputParserInvoke(v) ==
    IF v.tag = "message" THEN StrValue(v.s)
    ELSE IF v.tag = "str" THEN v
    ELSE ErrorValue("ValidationError")

\* What the chat model takes as input: a prompt value or a string.
LlmAccepts(v) == v.tag \in {"prompt", "str"}

\* A step other than the model call, applied to v.
ApplyStep(step, v) ==
    IF step = "prompt" THEN PromptInvoke(prompt, v)
    ELSE StrOutputParserInvoke(v)

StepRecord(step, in, out) == [step |-> step, in |-> in, out |-> out]

RECURSIVE RunSteps(_, _, _, _)
\* The sequence's steps from index i on, each given the output of the one
\* before, up to the model call (where the request suspends), the end of the
\* sequence, or a step that raises.
RunSteps(steps, i, v, tr) ==
    IF i > Len(steps)
    THEN [state |-> "finished", pos |-> i, val |-> v, trace |-> tr]
    ELSE IF steps[i] = "llm"
    THEN IF LlmAccepts(v)
         THEN [state |-> "awaiting", pos |-> i, val |-> v, trace |-> tr]
         ELSE [state |-> "raised", pos |-> i, val |-> ErrorValue("ValueError"),
               trace |-> tr]
    ELSE IF ApplyStep(steps[i], v).tag = "error"
    THEN [state |-> "raised", pos |-> i, val |-> ApplyStep(steps[i], v),
          trace |-> tr]
    ELSE RunSteps(steps, i + 1, ApplyStep(steps[i], v),
                  Append(tr, StepRecord(steps[i], v, ApplyStep(steps[i], v))))

----------------------------------------------------------------------------
(* The provider *)

Ok(c) == [kind |-> "ok", content |-> c, finish_reason |-> "stop"]
Failure(e) == [kind |-> e, content |-> <<>>, finish_reason |-> "none"]

\* The last n characters of s.
LastChars(s, n) == SubSeq(s, IF Len(s) > n THEN Len(s) - n + 1 ELSE 1, Len(s))

\* A deterministic stub: a fixed function of the prompt it is sent.
StubAnswer(p) == Ok(<<"S", ":">> \o LastChars(p.s, 2))

\* How a call with this key and prompt can end: the live provider answers a
\* request with a valid key, or reports an error of its own; it rejects any
\* other key; the network can fail in either case.
ProviderOutcomes(key, p) ==
    IF provider = "stub" THEN {StubAnswer(p)}
    ELSE {Failure("TransportError")}
         \cup (IF key = "gsk_valid"
               THEN {Ok(c) : c \in Contents} \cup {Failure("ProviderError")}
               ELSE {Failure("AuthError")})

\* ChatGroq's result for a successful call: an AI message with the content
\* and the response metadata.
AIMessage(o) == MessageValue(o.content, o.finish_reason)

----------------------------------------------------------------------------
(* The invoke endpoint *)

InvokePath(hash) ==
    [prefix |-> "/summarize", config_hash |-> hash, endpoint |-> "invoke"]
BarePath == [prefix |-> "/summarize", config_hash |-> "", endpoint |-> ""]

\* The paths requests are sent to, besides the client's.
Paths == {InvokePath(""), BarePath}

Body(top, has, inner) ==
    [top_text |-> top, has_input |-> has, input_text |-> inner]

\* {}, {"text": t}, {"input": {}}, {"input": {"text": 5}}, {"input": {"text": t}}
Bodies ==
    {Body(JAbsent, FALSE, JAbsent), Body(JAbsent, TRUE, JAbsent),
     Body(JAbsent, TRUE, JInt)}
    \cup {Body(JStr(t), FALSE, JAbsent) : t \in Texts}
    \cup {Body(JAbsent, TRUE, JStr(t)) : t \in Texts}

\* Whether a route of the app matches a request.
RouteMatches(m, path) ==
    \E rt \in routes :
        /\ rt.method = m
        /\ rt.prefix = path.prefix
        /\ rt.endpoint = path.endpoint
        /\ rt.hashed = (path.config_hash # "")

\* Variant: "text" is an optional field of the input schema.
LaxRequestValid(body) == body.has_input

\* Variant: the text is read at the top level of the body.
TopLevelRequestValid(body) == body.top_text.type = "str"

\* The request body must carry "input", and the input must fit the chain's
\* input schema: an object whose "text" is a string.
InvokeRequestValid(body) == body.has_input /\ body.input_text.type = "str"

\* The chain's input, unpacked from a valid body.
UnpackInput(body) == DictValue([k \in {TextKey} |-> body.input_text.s])

\* Variant: the response carries a mark once another request has been served.
CountingInvokeResponse(v, r) ==
    [status |-> 200,
     output |-> v.s \o (IF \E q \in Requests : q # r /\ rpc[q] = "done"
                         THEN <<"+">> ELSE <<>>),
     output_meta |-> v.meta, error |-> "none", run_id |-> r]

InvokeResponse(v, r) ==
    [status |-> 200, output |-> v.s, output_meta |-> v.meta, error |-> "none",
     run_id |-> r]
ErrorResponse(code, e) ==
    [status |-> code, output |-> <<>>, output_meta |-> "none", error |-> e,
     run_id |-> 0]
NotFound == ErrorResponse(404, "Not Found")
RequestValidationError == ErrorResponse(422, "validation error")
\* Variant: a failure of the chain is answered with an empty summary.
SwallowedError ==
    [status |-> 200, output |-> <<>>, output_meta |-> "none", error |-> "none",
     run_id |-> 0]

InternalServerError == ErrorResponse(500, "Internal Server Error")

\* The request's state after the chain ran to `run`.
Settle(r, run) ==
    /\ pos' = [pos EXCEPT ![r] = run.pos]
    /\ val' = [val EXCEPT ![r] = run.val]
    /\ trace' = [trace EXCEPT ![r] = run.trace]
    /\ rpc' = [rpc EXCEPT ![r] = IF run.state = "awaiting" THEN "awaiting" ELSE "done"]
    /\ resp' = [resp EXCEPT ![r] =
                   IF run.state = "awaiting" THEN NoResponse
                   ELSE IF run.state = "finished" THEN InvokeResponse(run.val, r)
                   ELSE InternalServerError]

\* A POST request arrives: routing, validation, and the chain up to the
\* provider call.
Handle(r, path, body) ==
    /\ spc = "listening"
    /\ rpc[r] = "idle"
    /\ reqPath' = [reqPath EXCEPT ![r] = path]
    /\ reqBody' = [reqBody EXCEPT ![r] = body]
    /\ IF ~RouteMatches("POST", path)
       THEN /\ rpc' = [rpc EXCEPT ![r] = "done"]
            /\ resp' = [resp EXCEPT ![r] = NotFound]
            /\ UNCHANGED <<pos, val, trace>>
       ELSE IF ~InvokeRequestValid(body)
       THEN /\ rpc' = [rpc EXCEPT ![r] = "done"]
            /\ resp' = [resp EXCEPT ![r] = RequestValidationError]
            /\ UNCHANGED <<pos, val, trace>>
       ELSE Settle(r, RunSteps(chain, 1, UnpackInput(body), <<>>))
    /\ UNCHANGED <<llmOut, serverVars, provider, builderVars>>

Receive(r) ==
    /\ \E path \in Paths, body \in Bodies : Handle(r, path, body)
    /\ UNCHANGED clientVars

\* The provider call of request r ends with outcome o: an error is raised
\* out of the chain, an answer goes on to the steps after the model.
LlmReturn(r) ==
    /\ rpc[r] = "awaiting"
    /\ \E o \in ProviderOutcomes(llm.api_key, val[r]) :
        /\ llmOut' = [llmOut EXCEPT ![r] = o]
        /\ IF o.kind # "ok"
           THEN /\ rpc' = [rpc EXCEPT ![r] = "done"]
                /\ resp' = [resp EXCEPT ![r] = InternalServerError]
                /\ val' = [val EXCEPT ![r] = ErrorValue(o.kind)]
                /\ UNCHANGED <<pos, trace>>
           ELSE Settle(r, RunSteps(chain, pos[r] + 1, AIMessage(o),
                                   Append(trace[r],
                                          StepRecord("llm", val[r], AIMessage(o)))))
    /\ UNCHANGED <<reqPath, reqBody, serverVars, provider, clientVars, builderVars>>

----------------------------------------------------------------------------
(* The client, client.py lines 3-5 *)

\* The literal text of line 4, cut to its first word.
ClientText == <<"B", "u", "i", "l", "d", "i", "n", "g">>

\* RemoteRunnable("http://localhost:8000/summarize/c/N4XyA").invoke(x) posts
\* {"input": x, "config": {}, "kwargs": {}} to the URL's /invoke.
ClientPath == InvokePath("N4XyA")
ClientBody == Body(JAbsent, TRUE, JStr(ClientText))

\* Variant: the response's status is not looked at.
InvokeReturnsAnyStatus(response) == TRUE

\* Whether invoke returns the response's output (otherwise it raises).
InvokeReturns(response) == response.status = 200

\* Line 4, the request: sent to a listening server, or refused.
ClientInvoke(r) ==
    /\ cpc = "invoke"
    /\ IF spc = "listening"
       THEN /\ Handle(r, ClientPath, ClientBody)
            /\ cpc' = "waiting"
            /\ creq' = r
       ELSE /\ cpc' = "crashed"
            /\ UNCHANGED <<creq, requestVars, serverVars, provider, builderVars>>
    /\ UNCHANGED <<res, stdout>>

\* Line 4, the response: invoke returns its output or raises on its status.
ClientReturn ==
    /\ cpc = "waiting"
    /\ rpc[creq] = "done"
    /\ IF InvokeReturns(resp[creq])
       THEN /\ res' = resp[creq].output
            /\ cpc' = "print"
       ELSE /\ cpc' = "crashed"
            /\ UNCHANGED res
    /\ UNCHANGED <<creq, stdout, requestVars, serverVars, provider, builderVars>>

\* Line 4, the connection fails while the client waits.
ClientTransportError ==
    /\ cpc = "waiting"
    /\ cpc' = "crashed"
    /\ UNCHANGED <<creq, res, stdout, requestVars, serverVars, provider, builderVars>>

\* Line 5: print(res)
ClientPrint ==
    /\ cpc = "print"
    /\ stdout' = Append(stdout, res)
    /\ cpc' = "exited"
    /\ UNCHANGED <<creq, res, requestVars, serverVars, provider, builderVars>>

----------------------------------------------------------------------------
(* The service and the client *)

RequestsIdle ==
    /\ rpc = [r \in Requests |-> "idle"]
    /\ reqPath = [r \in Requests |-> NoPath]
    /\ reqBody = [r \in Requests |-> NoBody]
    /\ pos = [r \in Requests |-> 0]
    /\ val = [r \in Requests |-> NoValue]
    /\ trace = [r \in Requests |-> <<>>]
    /\ llmOut = [r \in Requests |-> NoOutcome]
    /\ resp = [r \in Requests |-> NoResponse]

ClientIdle ==
    /\ cpc = "invoke"
    /\ creq = 0
    /\ res = <<>>
    /\ stdout = <<>>

Init ==
    /\ spc = "load_dotenv"
    /\ environ \in EnvKeys
    /\ dotenv \in DotenvKeys
    /\ groq_api_key = NoKey
    /\ llm = NoLlm
    /\ prompt = <<>>
    /\ chain = <<>>
    /\ routes = {}
    /\ provider \in {"live", "stub"}
    /\ provider = "stub" => (environ = "gsk_valid" /\ dotenv = NoKey)
    /\ RequestsIdle
    /\ ClientIdle
    /\ pin = NoValue
    /\ pout = NoValue

Next ==
    \/ LoadDotenv
    \/ ReadApiKey
    \/ CreateApp
    \/ BuildLlm
    \/ BuildPrompt
    \/ ComposeChain
    \/ AddRoutes
    \/ RunServer
    \/ \E r \in Requests : Receive(r)
    \/ \E r \in Requests : LlmReturn(r)
    \/ \E r \in Requests : ClientInvoke(r)
    \/ ClientReturn
    \/ ClientTransportError
    \/ ClientPrint

Spec == Init /\ [][Next]_vars

----------------------------------------------------------------------------
(* The prompt builder alone *)

\* The longest text a mapping given to the prompt builder holds.
MaxLen == 2

Alphabet == {"h", "{", "}"}

RECURSIVE TextsUpTo(_)
\* The texts over Alphabet of length at most n.
TextsUpTo(n) ==
    IF n = 0 THEN {<<>>}
    ELSE TextsUpTo(n - 1)
         \cup {Append(t, c) : t \in {u \in TextsUpTo(n - 1) : Len(u) = n - 1},
                              c \in Alphabet}

\* The mappings with any of the keys "text" and "o".
Mappings ==
    UNION {[ks -> TextsUpTo(MaxLen)] : ks \in SUBSET {TextKey, OtherKey}}

InitPrompt ==
    /\ spc = "listening"
    /\ environ = "gsk_valid"
    /\ dotenv = NoKey
    /\ groq_api_key = "gsk_valid"
    /\ llm = ChatGroq("gsk_valid")
    /\ prompt = TemplateString
    /\ chain = BuildChain
    /\ routes = AddedRoutes
    /\ provider = "stub"
    /\ RequestsIdle
    /\ ClientIdle
    /\ pin \in {DictValue(m) : m \in Mappings}
    /\ pout = NoValue

\* prompt.invoke(pin)
BuildPromptValue ==
    /\ pout = NoValue
    /\ pout' = PromptInvoke(prompt, pin)
    /\ UNCHANGED <<pin, serverVars, provider, requestVars, clientVars>>

NextPrompt == BuildPromptValue

SpecPrompt == InitPrompt /\ [][NextPrompt]_vars

----------------------------------------------------------------------------
(* What the properties below speak of *)

\* "Summarize the following text clearly and concisely:"
FixedPrefix ==
<<
    "S", "u", "m", "m", "a", "r", "i", "z", "e", " ", "t", "h",
    "e", " ", "f", "o", "l", "l", "o", "w", "i", "n", "g", " ",
    "t", "e", "x", "t", " ", "c", "l", "e", "a", "r", "l", "y",
    " ", "a", "n", "d", " ", "c", "o", "n", "c", "i", "s", "e",
    "l", "y", ":"
>>

\* The prompt the claims expect for text t.
ExpectedPrompt(t) == FixedPrefix \o <<"\n", "\n">> \o t

\* Request r was sent to the invoke route of /summarize.
OnInvokeRoute(r) ==
    /\ rpc[r] # "idle"
    /\ reqPath[r].prefix = "/summarize"
    /\ reqPath[r].endpoint = "invoke"

\* The body carries a string "text" where the service reads it.
CarriesText(body) == body.has_input /\ body.input_text.type = "str"

TextOf(r) == reqBody[r].input_text.s

Done(r) == rpc[r] = "done"

\* The provider was called for request r.
ProviderCalled(r) ==
    \/ rpc[r] = "awaiting"
    \/ llmOut[r] # NoOutcome
    \/ \E i \in 1..Len(trace[r]) : trace[r][i].step = "llm"

\* A step of request r's chain or its provider call failed.
DownstreamFailed(r) ==
    \/ llmOut[r].kind \notin {"none", "ok"}
    \/ val[r].tag = "error"

----------------------------------------------------------------------------
(* Properties *)

\* C1: a request to the invoke route whose text is a non-empty string, and
\* whose provider call returned a non-empty answer, is answered 200 with a
\* non-empty output.
C1_NonEmptyTextGets200 ==
    \A r \in Requests :
        (/\ OnInvokeRoute(r) /\ Done(r)
         /\ CarriesText(reqBody[r]) /\ TextOf(r) # <<>>
         /\ llmOut[r].kind = "ok" /\ llmOut[r].content # <<>>)
        => (/\ resp[r].status = 200
            /\ resp[r].output # <<>>
            /\ resp[r].error = "none")

C1_Witness ==
    \E r \in Requests :
        /\ OnInvokeRoute(r) /\ Done(r)
        /\ CarriesText(reqBody[r]) /\ TextOf(r) # <<>>
        /\ llmOut[r].kind = "ok" /\ llmOut[r].content # <<>>
        /\ resp[r].status = 200

\* C2: a request to the invoke route whose body carries no string text is
\* answered 422 with a validation error, and the provider is not called for it.
C2_MalformedGets422 ==
    \A r \in Requests :
        (OnInvokeRoute(r) /\ ~CarriesText(reqBody[r]))
        => (/\ Done(r)
            /\ resp[r].status = 422
            /\ resp[r].error # "none"
            /\ ~ProviderCalled(r)
            /\ trace[r] = <<>>)

C2_Witness ==
    \E r, q \in Requests :
        /\ OnInvokeRoute(r) /\ reqBody[r] = Body(JAbsent, FALSE, JAbsent)
        /\ resp[r].status = 422
        /\ OnInvokeRoute(q) /\ reqBody[q] = Body(JAbsent, TRUE, JInt)
        /\ resp[q].status = 422

\* C3: a request whose provider call or chain step failed is answered with a
\* 5xx status and an error body, never 200 and never with any output.
C3_DownstreamFailureGets5xx ==
    \A r \in Requests :
        (Done(r) /\ DownstreamFailed(r))
        => (/\ resp[r].status >= 500 /\ resp[r].status < 600
            /\ resp[r].error # "none"
            /\ resp[r].output = <<>>)

C3_Witness ==
    \E r \in Requests :
        /\ Done(r) /\ llmOut[r].kind = "TransportError"
        /\ resp[r].status = 500

\* C4: when GROQ_API_KEY is not in os.environ as line 16 reads it, the server
\* stops there: it never listens and no request is ever accepted.
C4_NoKeyNeverListens ==
    (environ = NoKey /\ spc # "load_dotenv")
    => (/\ spc \in {"read_key", "crashed"}
        /\ \A r \in Requests : rpc[r] = "idle"
        /\ cpc \in {"invoke", "crashed"}
        /\ stdout = <<>>)

C4_Witness ==
    /\ environ = NoKey
    /\ spc = "crashed"
    /\ cpc = "crashed"

\* C5 as stated: there is one POST route, and a body with "text" at its top
\* level is taken as a valid request and not rejected as malformed.
C5_TopLevelTextAccepted ==
    \A r \in Requests :
        (/\ OnInvokeRoute(r) /\ Done(r)
         /\ reqBody[r].top_text.type = "str")
        => (/\ resp[r].status # 422
            /\ Cardinality({rt \in routes : rt.method = "POST"}) = 1)

\* C5, amended: the invoke route takes a body with "text" under "input" as a
\* valid request and runs the chain on that text; a body with "text" only at
\* its top level is rejected with 422.
C5_NestedTextAccepted ==
    \A r \in Requests :
        (OnInvokeRoute(r) /\ Done(r))
        => (/\ CarriesText(reqBody[r])
               => (/\ resp[r].status \in {200, 500}
                   /\ Len(trace[r]) >= 1
                   /\ trace[r][1].step = "prompt"
                   /\ trace[r][1].in.tag = "dict"
                   /\ trace[r][1].in.kw[TextKey] = TextOf(r))
            /\ (reqBody[r].top_text.type = "str" /\ ~reqBody[r].has_input)
               => resp[r].status = 422)

C5_Witness ==
    \E r, q \in Requests :
        /\ OnInvokeRoute(r) /\ Done(r) /\ CarriesText(reqBody[r])
        /\ resp[r].status = 200
        /\ OnInvokeRoute(q) /\ Done(q) /\ reqBody[q].top_text.type = "str"
        /\ resp[q].status = 422

\* C6: against the deterministic stub, two requests to the invoke route with
\* the same body get the same status and the same output, whichever was
\* served first and however many were served before.
C6_SameInputSameOutput ==
    provider = "stub"
    => \A r, q \in Requests :
           (/\ OnInvokeRoute(r) /\ Done(r)
            /\ OnInvokeRoute(q) /\ Done(q)
            /\ reqBody[r] = reqBody[q])
           => (/\ resp[r].status = resp[q].status
               /\ resp[r].output = resp[q].output)

C6_Witness ==
    /\ provider = "stub"
    /\ \E r, q \in Requests :
           /\ r # q
           /\ OnInvokeRoute(r) /\ Done(r)
           /\ OnInvokeRoute(q) /\ Done(q)
           /\ reqBody[r] = reqBody[q]
           /\ resp[r].status = 200
           /\ resp[r].output # <<>>

\* C7: the client sends its one fixed input to the hard-coded URL; it prints
\* exactly the output of a 200 response, and after any other response or a
\* failed connection it has stopped on the error with nothing printed.
C7_ClientPrintsOnlyOnSuccess ==
    /\ Cardinality({r \in Requests : reqPath[r] = ClientPath}) <= 1
    /\ creq # 0 => (/\ reqPath[creq] = ClientPath
                    /\ reqBody[creq].has_input
                    /\ reqBody[creq].input_text = JStr(ClientText))
    /\ stdout # <<>> => (/\ creq # 0
                         /\ resp[creq].status = 200
                         /\ stdout = <<resp[creq].output>>)
    /\ cpc = "crashed" => stdout = <<>>
    /\ (creq # 0 /\ Done(creq) /\ resp[creq].status # 200)
       => (cpc \in {"waiting", "crashed"} /\ stdout = <<>>)
    /\ cpc = "exited" => Len(stdout) = 1

C7_Witness ==
    /\ cpc = "crashed"
    /\ creq # 0
    /\ Done(creq)
    /\ resp[creq].status = 500
    /\ stdout = <<>>

\* C8: while requests are in flight together, the configuration built at
\* module load stays as built, the prompt sent for a request is rendered from
\* its own text, and its response follows from its own body and the answer
\* to its own call alone.
C8_RequestsIndependent ==
    /\ spc = "listening"
       => (/\ llm = [api_key |-> environ, model |-> "llama-3.1-8b-instant",
                     temperature |-> "0.3"]
           /\ groq_api_key = environ
           /\ prompt = ExpectedPrompt(<<"{", "t", "e", "x", "t", "}">>)
           /\ chain = <<"prompt", "llm", "parser">>)
    /\ \A r \in Requests :
           OnInvokeRoute(r)
           => (/\ rpc[r] = "awaiting" => val[r].s = ExpectedPrompt(TextOf(r))
               /\ (Done(r) /\ ~CarriesText(reqBody[r])) => resp[r].status = 422
               /\ (Done(r) /\ CarriesText(reqBody[r]))
                  => (/\ trace[r][1].out.s = ExpectedPrompt(TextOf(r))
                      /\ llmOut[r].kind = "ok"
                         => (/\ resp[r].status = 200
                             /\ resp[r].output = llmOut[r].content)
                      /\ llmOut[r].kind # "ok" => resp[r].status = 500))

C8_Witness ==
    \E r, q \in Requests :
        /\ OnInvokeRoute(r) /\ rpc[r] = "awaiting"
        /\ OnInvokeRoute(q) /\ Done(q)
        /\ resp[q].status = 500
        /\ TextOf(r) # TextOf(q)

\* C9: behind every 200 response the steps ran as prompt, model, parser, each
\* on the output of the one before: the prompt was rendered from the
\* request's text, the model's message carries the provider's answer, and the
\* output is the parser's string with the message's metadata dropped.
C9_StagesInOrder ==
    \A r \in Requests :
        /\ resp[r].status = 200
           => (/\ Len(trace[r]) = 3
               /\ trace[r][1].step = "prompt"
               /\ trace[r][2].step = "llm"
               /\ trace[r][3].step = "parser"
               /\ trace[r][1].in.tag = "dict"
               /\ trace[r][1].in.kw[TextKey] = TextOf(r)
               /\ trace[r][1].out.s = ExpectedPrompt(TextOf(r))
               /\ trace[r][2].in = trace[r][1].out
               /\ trace[r][2].out.s = llmOut[r].content
               /\ trace[r][2].out.meta = llmOut[r].finish_reason
               /\ trace[r][3].in = trace[r][2].out
               /\ trace[r][3].out.tag = "str"
               /\ resp[r].output = trace[r][3].out.s
               /\ resp[r].output_meta = "none")
        /\ rpc[r] = "awaiting"
           => (/\ Len(trace[r]) = 1
               /\ trace[r][1].step = "prompt"
               /\ val[r] = trace[r][1].out
               /\ resp[r] = NoResponse)

C9_Witness ==
    \E r \in Requests :
        /\ resp[r].status = 200
        /\ Len(trace[r]) = 3
        /\ llmOut[r].content # <<>>
        /\ TextOf(r) # <<>>

\* C10: given a mapping with key "text", the prompt builder returns the fixed
\* prefix, two newlines and the text unchanged; without the key it fails; the
\* mapping and the template are as they were.
C10_PromptBuilder ==
    /\ prompt = ExpectedPrompt(<<"{", "t", "e", "x", "t", "}">>)
    /\ pin.tag = "dict"
    /\ pout # NoValue
       => IF TextKey \in DOMAIN pin.kw
          THEN /\ pout.tag = "prompt"
               /\ pout.s = ExpectedPrompt(pin.kw[TextKey])
          ELSE pout.tag = "error"

C10_Witness ==
    /\ pout.tag = "prompt"
    /\ pin.kw[TextKey] = <<"{", "h">>

====
